---- MODULE Spec2Model ----
(***************************************************************************)
(* Model of dashboard_modular/pages/02_Contract_Summary.py, the Streamlit  *)
(* page "Contract Summary".                                                *)
(*                                                                         *)
(* Three specifications share the module:                                  *)
(*   Spec      one browser session: the script is re-run top to bottom on  *)
(*             every widget change; st.session_state and the st.cache_data *)
(*             entry of load_excel_from_github survive between runs.       *)
(*   SpecCalc  the per-record derivations (TIME_GONE, REMAINING,           *)
(*             REALIZED_PCT, the vendor bar values) on one drawn record.   *)
(*   SpecRank  the table operations (eligibility filter, sort, top-5 /     *)
(*             others split, build_kpi_bar's legend flags) on a drawn      *)
(*             table.                                                      *)
(*                                                                         *)
(* Reading of the source.  Lines 312-313 (`return` at the indentation of   *)
(* its `def`) and 377-388 (`with` at column 0 followed by `else:`) are     *)
(* mis-indented; they are read in the only block structure in which they   *)
(* form a program: the `return` is the body of get_color, the `with`       *)
(* block closes the `if financial_file:` branch and the `else:` of line    *)
(* 387 is that branch's alternative.  Lines 234-283 are indented inside    *)
(* build_kpi_bar after its `return fig` (line 231): they are well-formed   *)
(* Python and are never executed by a run of the page.                     *)
(***************************************************************************)
EXTENDS Integers, Sequences, FiniteSets, TLC

VARIABLES
    \* ---- Spec: the session ----
    session_state,              \* st.session_state: key -> None | <<value>>
    cache,                      \* st.cache_data store of load_excel_from_github: url -> entry
    now,                        \* datetime.now(), one reading per run
    pc,                         \* position of the running script
    uploaded_financial_file,    \* widget value: None | <<content>>
    uploaded_contract_file,     \* widget value: None | <<content>>
    financial_file,             \* "None" | "upload" | "github"
    contract_file,              \* "None" | "upload" | "github"
    response,                   \* HTTP status received in this run: source -> None | <<code>>
    origin,                     \* which branch resolved each source in this run
    prev_origin,                \* the same, for the previous run (history)
    missing,                    \* required columns absent from the contract table read in this run
    outputs,                    \* elements emitted by this run, in order
    failure,                    \* exception that stopped this run, "None" if none
    \* ---- SpecCalc ----
    rec,                        \* the drawn input record
    derived,                    \* the derived fields, step by step
    \* ---- SpecRank ----
    df,                         \* the drawn contract table
    chart                       \* result of the chart preparation

sessionVars == <<session_state, cache, now, pc, uploaded_financial_file,
                 uploaded_contract_file, financial_file, contract_file,
                 response, origin, prev_origin, missing, outputs, failure>>
calcVars == <<rec, derived>>
rankVars == <<df, chart>>
vars == <<sessionVars, calcVars, rankVars>>

(***************************************************************************)
(* Bounds of the model.                                                    *)
(***************************************************************************)
MaxContent == 2     \* file contents are 0..MaxContent
HashSpace == 2      \* digests are 0..HashSpace-1 (a digest is many-to-one)
MaxClock == 3       \* runs of the script in one session
MaxMissing == 1     \* how many required columns a drawn contract table may lack

None == << >>
Some(x) == <<x>>

Contents == 0..MaxContent
Uploads == {None} \cup {Some(c) : c \in Contents}

(***************************************************************************)
(* get_file_hash: the MD5 digest of the file's bytes.  A digest is a fixed *)
(* many-to-one function of the content; the model keeps that: contents c   *)
(* and c + HashSpace have the same digest.                                 *)
(***************************************************************************)
get_file_hash(file) == file[1] % HashSpace

Sources == {"financial", "contract"}
GITHUB_FINANCIAL_FILE_URL == "financial"
GITHUB_CONTRACT_FILE_URL == "contract"

StatusCodes == {200, 404}

(***************************************************************************)
(* load_excel_from_github's body: BytesIO on 200, None otherwise.          *)
(***************************************************************************)
load_excel_from_github(status_code) ==
    IF status_code = 200 THEN "github" ELSE "None"

(***************************************************************************)
(* The upload branch of a source's resolution (lines 39-42 / 51-54): the   *)
(* hash and the time are written only when the stored hash differs.        *)
(***************************************************************************)
ResolveUploadAlwaysStamps(ss, hash_key, time_key, file, t) ==
    [ss EXCEPT ![hash_key] = Some(get_file_hash(file)), ![time_key] = Some(t)]

ResolveUpload(ss, hash_key, time_key, file, t) ==
    LET file_hash == get_file_hash(file)
    IN  IF ss[hash_key] # Some(file_hash)
        THEN [ss EXCEPT ![hash_key] = Some(file_hash), ![time_key] = Some(t)]
        ELSE ss

(***************************************************************************)
(* The fallback branch (lines 45-47 / 57-59) does not touch the session    *)
(* state.                                                                  *)
(***************************************************************************)
ResolveFallbackForgets(ss, hash_key, time_key) ==
    [ss EXCEPT ![hash_key] = None]

ResolveFallback(ss, hash_key, time_key) == ss

SessionKeys == {"project_file_hash", "project_upload_time",
                "contract_file_hash", "contract_upload_time"}

(***************************************************************************)
(* Contract table header, after the strip and the rename of lines 111-118. *)
(***************************************************************************)
RawRequired == {"KONTRAK", "Start Date", "End Date", "STATUS", "PROGRESS ACTUAL"}

Rename(col) ==
    CASE col = "Start Date" -> "START"
      [] col = "End Date" -> "END"
      [] col = "PROGRESS ACTUAL" -> "PROGRESS"
      [] OTHER -> col

Required == {Rename(c) : c \in RawRequired}

\* the headers a drawn contract file may carry
RawHeaders == {RawRequired \ m : m \in {s \in SUBSET RawRequired : Cardinality(s) <= MaxMissing}}

Columns(raw) == {Rename(c) : c \in raw}

\* column lookups of lines 120-132, in program order; the first absent one raises KeyError
KeyLookups == <<"START", "END", "PROGRESS", "STATUS">>

RaisesKeyError(cols) == \E i \in 1..Len(KeyLookups) : KeyLookups[i] \notin cols

\* px.timeline (line 146) validates its column arguments
GanttColumns == {"START", "END", "KONTRAK", "STATUS", "PROGRESS"}

RaisesValueError(cols) == ~(GanttColumns \subseteq cols)

MetricCards == <<"card_total", "card_active", "card_non_active", "card_adendum">>


(***************************************************************************)
(* Spec: one session.                                                      *)
(***************************************************************************)
Emit(seq) == outputs \o seq

InitSession ==
    /\ session_state = [k \in SessionKeys |-> None]
    /\ cache = [u \in Sources |-> "miss"]
    /\ now = 0
    /\ pc = "idle"
    /\ uploaded_financial_file = None
    /\ uploaded_contract_file = None
    /\ financial_file = "None"
    /\ contract_file = "None"
    /\ response = [s \in Sources |-> None]
    /\ origin = [s \in Sources |-> "unresolved"]
    /\ prev_origin = [s \in Sources |-> "unresolved"]
    /\ missing = {}
    /\ outputs = << >>
    /\ failure = "None"

InitCalcIdle == rec = None /\ derived = None
InitRankIdle == df = << >> /\ chart = None

Init == InitSession /\ InitCalcIdle /\ InitRankIdle

\* A widget change re-runs the script from line 1 with the widgets' current values.
Rerun ==
    /\ pc \in {"idle", "done", "halted"}
    /\ now < MaxClock
    /\ now' = now + 1
    /\ \E f \in Uploads, c \in Uploads :
         /\ uploaded_financial_file' = f
         /\ uploaded_contract_file' = c
    /\ financial_file' = "None"
    /\ contract_file' = "None"
    /\ response' = [s \in Sources |-> None]
    /\ prev_origin' = origin
    /\ origin' = [s \in Sources |-> "unresolved"]
    /\ missing' = {}
    /\ outputs' = << >>
    /\ failure' = "None"
    /\ pc' = "financial"
    /\ UNCHANGED <<session_state, cache>>

\* @st.cache_data(ttl=3600), line 25: an entry is dropped when its ttl has run out.
CacheExpire(url) ==
    /\ cache[url] # "miss"
    /\ cache' = [cache EXCEPT ![url] = "miss"]
    /\ UNCHANGED <<session_state, now, pc, uploaded_financial_file, uploaded_contract_file,
                   financial_file, contract_file, response, origin, prev_origin,
                   missing, outputs, failure>>

\* lines 38-44
ResolveFinancialUpload ==
    /\ pc = "financial"
    /\ uploaded_financial_file # None
    /\ session_state' = ResolveUpload(session_state, "project_file_hash",
                                      "project_upload_time", uploaded_financial_file, now)
    /\ financial_file' = "upload"
    /\ origin' = [origin EXCEPT !["financial"] = "user-upload"]
    /\ outputs' = Emit(<<"sidebar_last_project_upload">>)
    /\ pc' = "contract"
    /\ UNCHANGED <<cache, now, uploaded_financial_file, uploaded_contract_file,
                   contract_file, response, prev_origin, missing, failure>>

\* lines 45-47, the cached function answering from its store
ResolveFinancialCached ==
    /\ pc = "financial"
    /\ uploaded_financial_file = None
    /\ cache[GITHUB_FINANCIAL_FILE_URL] # "miss"
    /\ session_state' = ResolveFallback(session_state, "project_file_hash",
                                        "project_upload_time")
    /\ financial_file' = cache[GITHUB_FINANCIAL_FILE_URL]
    /\ origin' = [origin EXCEPT !["financial"] = "remote-fallback"]
    /\ outputs' = Emit(<<"sidebar_default_project_file">>)
    /\ pc' = "contract"
    /\ UNCHANGED <<cache, now, uploaded_financial_file, uploaded_contract_file,
                   contract_file, response, prev_origin, missing, failure>>

\* lines 45-47 and 26-31, the cached function running its body
ResolveFinancialFetch ==
    /\ pc = "financial"
    /\ uploaded_financial_file = None
    /\ cache[GITHUB_FINANCIAL_FILE_URL] = "miss"
    /\ \E status_code \in StatusCodes :
         /\ financial_file' = load_excel_from_github(status_code)
         /\ cache' = [cache EXCEPT ![GITHUB_FINANCIAL_FILE_URL] =
                                       load_excel_from_github(status_code)]
         /\ response' = [response EXCEPT !["financial"] = Some(status_code)]
    /\ session_state' = ResolveFallback(session_state, "project_file_hash",
                                        "project_upload_time")
    /\ origin' = [origin EXCEPT !["financial"] = "remote-fallback"]
    /\ outputs' = Emit(<<"sidebar_default_project_file">>)
    /\ pc' = "contract"
    /\ UNCHANGED <<now, uploaded_financial_file, uploaded_contract_file,
                   contract_file, prev_origin, missing, failure>>

\* lines 50-56
ResolveContractUpload ==
    /\ pc = "contract"
    /\ uploaded_contract_file # None
    /\ session_state' = ResolveUpload(session_state, "contract_file_hash",
                                      "contract_upload_time", uploaded_contract_file, now)
    /\ contract_file' = "upload"
    /\ origin' = [origin EXCEPT !["contract"] = "user-upload"]
    /\ outputs' = Emit(<<"sidebar_last_contract_upload">>)
    /\ pc' = "banner"
    /\ UNCHANGED <<cache, now, uploaded_financial_file, uploaded_contract_file,
                   financial_file, response, prev_origin, missing, failure>>

\* lines 57-59, the cached function answering from its store
ResolveContractCached ==
    /\ pc = "contract"
    /\ uploaded_contract_file = None
    /\ cache[GITHUB_CONTRACT_FILE_URL] # "miss"
    /\ session_state' = ResolveFallback(session_state, "contract_file_hash",
                                        "contract_upload_time")
    /\ contract_file' = cache[GITHUB_CONTRACT_FILE_URL]
    /\ origin' = [origin EXCEPT !["contract"] = "remote-fallback"]
    /\ outputs' = Emit(<<"sidebar_default_contract_file">>)
    /\ pc' = "banner"
    /\ UNCHANGED <<cache, now, uploaded_financial_file, uploaded_contract_file,
                   financial_file, response, prev_origin, missing, failure>>

\* lines 57-59 and 26-31, the cached function running its body
ResolveContractFetch ==
    /\ pc = "contract"
    /\ uploaded_contract_file = None
    /\ cache[GITHUB_CONTRACT_FILE_URL] = "miss"
    /\ \E status_code \in StatusCodes :
         /\ contract_file' = load_excel_from_github(status_code)
         /\ cache' = [cache EXCEPT ![GITHUB_CONTRACT_FILE_URL] =
                                       load_excel_from_github(status_code)]
         /\ response' = [response EXCEPT !["contract"] = Some(status_code)]
    /\ session_state' = ResolveFallback(session_state, "contract_file_hash",
                                        "contract_upload_time")
    /\ origin' = [origin EXCEPT !["contract"] = "remote-fallback"]
    /\ outputs' = Emit(<<"sidebar_default_contract_file">>)
    /\ pc' = "banner"
    /\ UNCHANGED <<now, uploaded_financial_file, uploaded_contract_file,
                   financial_file, prev_origin, missing, failure>>

\* lines 62-76: the page title
Banner ==
    /\ pc = "banner"
    /\ outputs' = Emit(<<"banner">>)
    /\ pc' = "contract_section"
    /\ UNCHANGED <<session_state, cache, now, uploaded_financial_file,
                   uploaded_contract_file, financial_file, contract_file, response,
                   origin, prev_origin, missing, failure>>

\* line 107 false: the contract section is skipped
SkipContract ==
    /\ pc = "contract_section"
    /\ contract_file = "None"
    /\ pc' = "financial_section"
    /\ UNCHANGED <<session_state, cache, now, uploaded_financial_file,
                   uploaded_contract_file, financial_file, contract_file, response,
                   origin, prev_origin, missing, outputs, failure>>

\* lines 107-132: read, strip, rename, coerce, count; a missing column raises KeyError
ReadContract ==
    /\ pc = "contract_section"
    /\ contract_file # "None"
    /\ \E raw \in RawHeaders :
         /\ missing' = Required \ Columns(raw)
         /\ IF RaisesKeyError(Columns(raw))
            THEN failure' = "KeyError" /\ pc' = "halted"
            ELSE failure' = failure /\ pc' = "metrics"
    /\ UNCHANGED <<session_state, cache, now, uploaded_financial_file,
                   uploaded_contract_file, financial_file, contract_file, response,
                   origin, prev_origin, outputs>>

\* lines 134-140: the four metric cards
Metrics ==
    /\ pc = "metrics"
    /\ outputs' = Emit(MetricCards)
    /\ pc' = "gantt"
    /\ UNCHANGED <<session_state, cache, now, uploaded_financial_file,
                   uploaded_contract_file, financial_file, contract_file, response,
                   origin, prev_origin, missing, failure>>

\* lines 143-156: the section header, then px.timeline, which raises on an unknown column
Gantt ==
    /\ pc = "gantt"
    /\ IF RaisesValueError(Required \ missing)
       THEN /\ outputs' = Emit(<<"gantt_header">>)
            /\ failure' = "ValueError"
            /\ pc' = "halted"
       ELSE /\ outputs' = Emit(<<"gantt_header", "gantt_chart">>)
            /\ failure' = failure
            /\ pc' = "define_kpi"
    /\ UNCHANGED <<session_state, cache, now, uploaded_financial_file,
                   uploaded_contract_file, financial_file, contract_file, response,
                   origin, prev_origin, missing>>

\* lines 162-283: two function definitions.  The data preparation, the two KPI
\* charts and the time-elapsed chart (lines 234-283) belong to build_kpi_bar's body,
\* after its return, and build_kpi_bar is not called here: nothing is emitted.
DefineKpi ==
    /\ pc = "define_kpi"
    /\ pc' = "status"
    /\ UNCHANGED <<session_state, cache, now, uploaded_financial_file,
                   uploaded_contract_file, financial_file, contract_file, response,
                   origin, prev_origin, missing, outputs, failure>>

\* lines 286-302: status pie chart, status selector and the filtered table
StatusSection ==
    /\ pc = "status"
    /\ outputs' = Emit(<<"status_header", "status_pie", "status_select", "status_table">>)
    /\ pc' = "financial_section"
    /\ UNCHANGED <<session_state, cache, now, uploaded_financial_file,
                   uploaded_contract_file, financial_file, contract_file, response,
                   origin, prev_origin, missing, failure>>

\* lines 305-384: the vendor payment chart; a vendor row without one of the columns
\* build_kpi_bar reads raises KeyError inside the loop
FinancialSection ==
    /\ pc = "financial_section"
    /\ financial_file # "None"
    /\ \E columns_ok \in BOOLEAN :
         IF columns_ok
         THEN /\ outputs' = Emit(<<"fin_success", "fin_header", "fin_chart">>)
              /\ failure' = failure
              /\ pc' = "done"
         ELSE /\ outputs' = Emit(<<"fin_success", "fin_header">>)
              /\ failure' = "KeyError"
              /\ pc' = "halted"
    /\ UNCHANGED <<session_state, cache, now, uploaded_financial_file,
                   uploaded_contract_file, financial_file, contract_file, response,
                   origin, prev_origin, missing>>

\* lines 387-388
NoFinancial ==
    /\ pc = "financial_section"
    /\ financial_file = "None"
    /\ outputs' = Emit(<<"upload_info">>)
    /\ pc' = "done"
    /\ UNCHANGED <<session_state, cache, now, uploaded_financial_file,
                   uploaded_contract_file, financial_file, contract_file, response,
                   origin, prev_origin, missing, failure>>

Next ==
    \/ Rerun /\ UNCHANGED <<calcVars, rankVars>>
    \/ (\E url \in Sources : CacheExpire(url)) /\ UNCHANGED <<calcVars, rankVars>>
    \/ ResolveFinancialUpload /\ UNCHANGED <<calcVars, rankVars>>
    \/ ResolveFinancialCached /\ UNCHANGED <<calcVars, rankVars>>
    \/ ResolveFinancialFetch /\ UNCHANGED <<calcVars, rankVars>>
    \/ ResolveContractUpload /\ UNCHANGED <<calcVars, rankVars>>
    \/ ResolveContractCached /\ UNCHANGED <<calcVars, rankVars>>
    \/ ResolveContractFetch /\ UNCHANGED <<calcVars, rankVars>>
    \/ Banner /\ UNCHANGED <<calcVars, rankVars>>
    \/ SkipContract /\ UNCHANGED <<calcVars, rankVars>>
    \/ ReadContract /\ UNCHANGED <<calcVars, rankVars>>
    \/ Metrics /\ UNCHANGED <<calcVars, rankVars>>
    \/ Gantt /\ UNCHANGED <<calcVars, rankVars>>
    \/ DefineKpi /\ UNCHANGED <<calcVars, rankVars>>
    \/ StatusSection /\ UNCHANGED <<calcVars, rankVars>>
    \/ FinancialSection /\ UNCHANGED <<calcVars, rankVars>>
    \/ NoFinancial /\ UNCHANGED <<calcVars, rankVars>>

Spec == Init /\ [][Next]_vars


(***************************************************************************)
(* pandas values.  A float64 cell is NaN, +inf, -inf or a finite number,   *)
(* kept here as an exact fraction n/d in lowest terms with d > 0.          *)
(* A datetime64 / timedelta64 cell is NaT (None) or Some(ticks).           *)
(***************************************************************************)
Abs(x) == IF x < 0 THEN 0 - x ELSE x

RECURSIVE GCD(_, _)
GCD(a, b) == IF b = 0 THEN a ELSE GCD(b, a % b)

NaN == [k |-> "nan", n |-> 0, d |-> 1]
Inf(sign) == [k |-> "inf", n |-> sign, d |-> 1]

Frac(n, d) ==
    LET g == GCD(Abs(n), Abs(d))
        s == IF d < 0 THEN 0 - 1 ELSE 1
    IN  [k |-> "num", n |-> (s * n) \div g, d |-> (s * d) \div g]

Num(v) == Frac(v, 1)

isna(x) == x.k = "nan"
notna(x) == ~isna(x)
Sign(v) == IF v > 0 THEN 1 ELSE IF v < 0 THEN 0 - 1 ELSE 0

\* a < b, a <= b on non-NaN values (any comparison with NaN is False)
FLess(a, b) ==
    /\ notna(a) /\ notna(b)
    /\ CASE a.k = "inf" /\ b.k = "inf" -> a.n < b.n
         [] a.k = "inf" -> a.n < 0
         [] b.k = "inf" -> b.n > 0
         [] OTHER -> a.n * b.d < b.n * a.d

FLeq(a, b) == notna(a) /\ notna(b) /\ ~FLess(b, a)

\* a - b
FSub(a, b) ==
    CASE isna(a) \/ isna(b) -> NaN
      [] a.k = "inf" /\ b.k = "inf" -> IF a.n = b.n THEN NaN ELSE a
      [] a.k = "inf" -> a
      [] b.k = "inf" -> Inf(0 - b.n)
      [] OTHER -> Frac(a.n * b.d - b.n * a.d, a.d * b.d)

\* a * b
FMul(a, b) ==
    CASE isna(a) \/ isna(b) -> NaN
      [] a.k = "inf" \/ b.k = "inf" ->
            IF Sign(a.n) * Sign(b.n) = 0 THEN NaN ELSE Inf(Sign(a.n) * Sign(b.n))
      [] OTHER -> Frac(a.n * b.n, a.d * b.d)

\* a / b in IEEE arithmetic: x/0 is +-inf, 0/0 is NaN; no exception is raised
FDiv(a, b) ==
    CASE isna(a) \/ isna(b) -> NaN
      [] a.k = "inf" /\ b.k = "inf" -> NaN
      [] a.k = "inf" -> Inf(IF b.n < 0 THEN 0 - a.n ELSE a.n)
      [] b.k = "inf" -> Num(0)
      [] b.n = 0 -> IF a.n = 0 THEN NaN ELSE Inf(Sign(a.n))
      [] OTHER -> Frac(a.n * b.d, a.d * b.n)

\* Series.clip(lower, upper); None is an absent limit; NaN stays NaN
clip(x, lower, upper) ==
    CASE isna(x) -> x
      [] lower # None /\ FLess(x, Num(lower[1])) -> Num(lower[1])
      [] upper # None /\ FLess(Num(upper[1]), x) -> Num(upper[1])
      [] OTHER -> x

\* Series.round(1): to one decimal, halves to the even digit; NaN and inf unchanged
round1(x) ==
    IF x.k # "num" THEN x
    ELSE LET t == x.n * 10
             q == t \div x.d                  \* floor, x.d > 0
             r == t - q * x.d
             m == CASE 2 * r < x.d -> q
                    [] 2 * r > x.d -> q + 1
                    [] OTHER -> IF q % 2 = 0 THEN q ELSE q + 1
         IN  Frac(m, 10)

\* timedelta a - b
TdSub(a, b) == IF a = None \/ b = None THEN None ELSE Some(a[1] - b[1])

\* timedelta / timedelta -> float64
TdDiv(a, b) == IF a = None \/ b = None THEN NaN ELSE FDiv(Num(a[1]), Num(b[1]))

(***************************************************************************)
(* Lines 120-126: DURATION and TIME_GONE of one contract row.              *)
(***************************************************************************)
DURATION(START, END) == TdSub(END, START)

TIME_GONE(today, START, END) ==
    FMul(clip(TdDiv(TdSub(Some(today), START), TdSub(END, START)), Some(0), Some(1)),
         Num(100))

(***************************************************************************)
(* Lines 241-244 on one row: the row is kept when both money cells are     *)
(* non-null; REMAINING and REALIZATION are floored at 0; REALIZED_PCT is   *)
(* the clipped REALIZATION over CONTRACT_VALUE, times 100, rounded.        *)
(***************************************************************************)
Eligible(row) == notna(row.CONTRACT_VALUE) /\ notna(row.REALIZATION)

PrepareRow(row) ==
    LET remaining == FSub(row.CONTRACT_VALUE, row.REALIZATION)
        REALIZATION == clip(row.REALIZATION, Some(0), None)
        REMAINING == clip(remaining, Some(0), None)
    IN  [idx |-> row.idx,
         CONTRACT_VALUE |-> row.CONTRACT_VALUE,
         REALIZATION |-> REALIZATION,
         REMAINING |-> REMAINING,
         REALIZED_PCT |-> round1(FMul(FDiv(REALIZATION, row.CONTRACT_VALUE), Num(100)))]

\* lines 162-163 / 312-313
get_color(pct) == IF FLeq(Num(50), pct) THEN "#2ECC71" ELSE "#E74C3C"

(***************************************************************************)
(* build_kpi_bar of the contract section, lines 169-210: one pair of       *)
(* traces per row; idx is the row's index label.                           *)
(***************************************************************************)
ContractPair(row) ==
    [realized |-> [name |-> "REALIZED", x |-> row.REALIZATION,
                   showlegend |-> (row.idx = 0), color |-> get_color(row.REALIZED_PCT)],
     remaining |-> [name |-> "REMAINING", x |-> row.REMAINING,
                    showlegend |-> (row.idx = 0), color |-> "#D0D3D4"],
     remaining_value |-> row.REMAINING,
     realized_pct |-> row.REALIZED_PCT]

(***************************************************************************)
(* build_kpi_bar of the financial section, lines 318-362: the row's cells  *)
(* are read as they come from the file.                                    *)
(***************************************************************************)
VendorPair(row) ==
    LET pct == row.REALIZED_PCT
        remaining_pct == FSub(Num(100), pct)
    IN  [realized |-> [name |-> "REALIZED (%)", x |-> pct,
                       showlegend |-> (row.idx = 0), color |-> get_color(pct)],
         remaining |-> [name |-> "REMAINING (%)", x |-> remaining_pct,
                        showlegend |-> (row.idx = 0), color |-> "#D0D3D4"],
         remaining_value |-> row.REMAINING,
         realized_pct |-> pct]


(***************************************************************************)
(* SpecCalc: the derivations applied to one drawn record.                  *)
(***************************************************************************)
MaxDay == 2         \* parsed dates are 0..MaxDay, today is -1..MaxDay+1
MaxVal == 2         \* money cells are -MaxVal..MaxVal

Stamps == {None} \cup {Some(t) : t \in 0..MaxDay}
Todays == (0 - 1)..(MaxDay + 1)
Money == {NaN} \cup {Num(v) : v \in (0 - MaxVal)..MaxVal}
Percents == {NaN} \cup {Num(50 * v) : v \in 0..(MaxVal + 1)}

ContractRecs == [kind : {"contract"}, idx : {0}, START : Stamps, END : Stamps,
                 today : Todays, CONTRACT_VALUE : Money, REALIZATION : Money]

VendorRecs == [kind : {"vendor"}, idx : {0}, REALIZED_PCT : Percents,
               REALIZATION : Money, REMAINING : Money, CONTRACT_VALUE : Money]

Blank == [stage |-> "read", DURATION |-> None, TIME_GONE |-> NaN,
          row |-> None, pair |-> None]

InitCalc ==
    /\ rec \in ContractRecs \cup VendorRecs
    /\ derived = Blank
    /\ InitSession
    /\ InitRankIdle

\* lines 120-126
DeriveTime ==
    /\ rec.kind = "contract"
    /\ derived.stage = "read"
    /\ derived' = [derived EXCEPT !.stage = "time",
                                  !.DURATION = DURATION(rec.START, rec.END),
                                  !.TIME_GONE = TIME_GONE(rec.today, rec.START, rec.END)]
    /\ UNCHANGED rec

\* lines 241-244, the row kept by the filter
PrepareKept ==
    /\ derived.stage = "time"
    /\ Eligible(rec)
    /\ derived' = [derived EXCEPT !.stage = "prepared", !.row = PrepareRow(rec)]
    /\ UNCHANGED rec

\* line 241, the row dropped by the filter
PrepareDropped ==
    /\ derived.stage = "time"
    /\ ~Eligible(rec)
    /\ derived' = [derived EXCEPT !.stage = "excluded"]
    /\ UNCHANGED rec

\* lines 169-210
ShapeContract ==
    /\ derived.stage = "prepared"
    /\ derived' = [derived EXCEPT !.stage = "shaped", !.pair = ContractPair(derived.row)]
    /\ UNCHANGED rec

\* lines 318-362
ShapeVendor ==
    /\ rec.kind = "vendor"
    /\ derived.stage = "read"
    /\ derived' = [derived EXCEPT !.stage = "shaped", !.pair = VendorPair(rec)]
    /\ UNCHANGED rec

NextCalc ==
    \/ DeriveTime /\ UNCHANGED <<sessionVars, rankVars>>
    \/ PrepareKept /\ UNCHANGED <<sessionVars, rankVars>>
    \/ PrepareDropped /\ UNCHANGED <<sessionVars, rankVars>>
    \/ ShapeContract /\ UNCHANGED <<sessionVars, rankVars>>
    \/ ShapeVendor /\ UNCHANGED <<sessionVars, rankVars>>

SpecCalc == InitCalc /\ [][NextCalc]_vars


(***************************************************************************)
(* SpecRank: the table operations on a drawn table.                        *)
(***************************************************************************)
MaxRows == 6        \* rows of a drawn table

TopN == 5

Min(a, b) == IF a < b THEN a ELSE b

\* the cells a drawn contract row may carry: two distinct values, a null
\* contract value, a null realization
RankCells == {[CONTRACT_VALUE |-> Num(1), REALIZATION |-> Num(0)],
              [CONTRACT_VALUE |-> Num(2), REALIZATION |-> Num(0)],
              [CONTRACT_VALUE |-> NaN, REALIZATION |-> Num(0)],
              [CONTRACT_VALUE |-> Num(1), REALIZATION |-> NaN]}

VendorCells == {[REALIZED_PCT |-> Num(50), REALIZATION |-> Num(1), REMAINING |-> Num(1),
                 CONTRACT_VALUE |-> Num(2)]}

\* pd.read_excel: the rows carry the index labels 0, 1, 2, ...
WithIndex(cells, kind) ==
    [kind |-> kind,
     rows |-> [i \in 1..Len(cells) |->
                 IF kind = "contract"
                 THEN [idx |-> i - 1, CONTRACT_VALUE |-> cells[i].CONTRACT_VALUE,
                       REALIZATION |-> cells[i].REALIZATION]
                 ELSE [idx |-> i - 1, REALIZED_PCT |-> cells[i].REALIZED_PCT,
                       REALIZATION |-> cells[i].REALIZATION,
                       REMAINING |-> cells[i].REMAINING,
                       CONTRACT_VALUE |-> cells[i].CONTRACT_VALUE]]]

\* line 241: positions of the rows the filter keeps
Kept(rows) == {i \in 1..Len(rows) : Eligible(rows[i])}

(***************************************************************************)
(* Line 245, sort_values(by='CONTRACT_VALUE', ascending=False).  pandas    *)
(* reverses the column, sorts it ascending with numpy's default kind and   *)
(* reverses the result; for a column this short numpy sorts by insertion,  *)
(* which keeps equal values in their order: rows with equal CONTRACT_VALUE *)
(* stay in file order.                                                     *)
(***************************************************************************)
Before(a, b) == FLeq(b.CONTRACT_VALUE, a.CONTRACT_VALUE)

\* position i put into an already sorted order, after the rows that go before it
Insert(rows, order, i) ==
    LET k == Cardinality({p \in 1..Len(order) : Before(rows[order[p]], rows[i])})
    IN  SubSeq(order, 1, k) \o <<i>> \o SubSeq(order, k + 1, Len(order))

\* the positions of S among the first n rows, sorted
RECURSIVE sort_values(_, _, _)
sort_values(rows, S, n) ==
    IF n = 0 THEN << >>
    ELSE IF n \in S THEN Insert(rows, sort_values(rows, S, n - 1), n)
         ELSE sort_values(rows, S, n - 1)

\* lines 248-249
head(s, n) == SubSeq(s, 1, Min(n, Len(s)))

ilocFromOneEarly(s, n) == SubSeq(s, n, Len(s))

ilocFrom(s, n) == SubSeq(s, n + 1, Len(s))

\* lines 169-210 / 318-362: the figure is the sequence of pairs, in row order
build_kpi_bar(df_subset) == [i \in 1..Len(df_subset) |-> ContractPair(df_subset[i])]

build_kpi_bar_vendor(df_subset) == [i \in 1..Len(df_subset) |-> VendorPair(df_subset[i])]

InitRank ==
    /\ \E n \in 0..MaxRows :
         \/ \E cells \in [1..n -> RankCells] : df = WithIndex(cells, "contract")
         \/ \E cells \in [1..n -> VendorCells] : df = WithIndex(cells, "vendor")
    /\ chart = None
    /\ InitSession
    /\ InitCalcIdle

\* lines 235-268: filter, derive, sort, split, and the two KPI figures
ContractCharts ==
    /\ df.kind = "contract"
    /\ chart = None
    /\ LET order == sort_values(df.rows, Kept(df.rows), Len(df.rows))
           df_chart == [i \in 1..Len(order) |-> PrepareRow(df.rows[order[i]])]
           top5 == head(df_chart, TopN)
           others == ilocFrom(df_chart, TopN)
       IN  chart' = [df_chart |-> df_chart, top5 |-> top5, others |-> others,
                     figs |-> <<build_kpi_bar(top5), build_kpi_bar(others)>>]
    /\ UNCHANGED df

\* lines 306-384: the vendor figure over the table as read
VendorChart ==
    /\ df.kind = "vendor"
    /\ chart = None
    /\ chart' = [df_chart |-> << >>, top5 |-> << >>, others |-> << >>,
                 figs |-> <<build_kpi_bar_vendor(df.rows)>>]
    /\ UNCHANGED df

NextRank ==
    \/ ContractCharts /\ UNCHANGED <<sessionVars, calcVars>>
    \/ VendorChart /\ UNCHANGED <<sessionVars, calcVars>>

SpecRank == InitRank /\ [][NextRank]_vars


(***************************************************************************)
(*                          Properties                                     *)
(***************************************************************************)
Emitted == {outputs[i] : i \in 1..Len(outputs)}

\* summary cards, charts and tables, for either dataset
DashboardOutputs == {"card_total", "card_active", "card_non_active", "card_adendum",
                     "gantt_chart", "kpi_top5", "kpi_others", "time_buckets",
                     "status_pie", "status_table", "fin_chart"}

HashKey(s) == IF s = "financial" THEN "project_file_hash" ELSE "contract_file_hash"
TimeKey(s) == IF s = "financial" THEN "project_upload_time" ELSE "contract_upload_time"
Uploaded(s) == IF s = "financial" THEN uploaded_financial_file ELSE uploaded_contract_file

\* the script is about to resolve source s
Resolving(s) == pc = s

\* source s has been resolved in the current run
Resolved(s) == origin[s] # "unresolved"

\* one step, seen from source s
C1_StepKeepsTime(s) ==
    /\ (/\ Resolving(s)
        /\ Uploaded(s) # None
        /\ session_state[HashKey(s)] = Some(get_file_hash(Uploaded(s))))
       => session_state'[TimeKey(s)] = session_state[TimeKey(s)]
    /\ session_state'[TimeKey(s)] # session_state[TimeKey(s)]
       => /\ Resolving(s)
          /\ Uploaded(s) # None
          /\ session_state[HashKey(s)] # Some(get_file_hash(Uploaded(s)))

(***************************************************************************)
(* C1.  Resolving a source with an uploaded file whose fingerprint equals  *)
(* the stored fingerprint leaves that source's upload time as it was; the  *)
(* upload time changes only in a step that resolves the source with an     *)
(* uploaded file whose fingerprint differs from the stored one.            *)
(***************************************************************************)
C1_SameFingerprintKeepsUploadTime ==
    [][\A s \in Sources : C1_StepKeepsTime(s)]_vars

\* a source resolved again with the stored fingerprint, its upload time from an earlier run
C1_Witness ==
    \E s \in Sources :
        /\ Resolved(s)
        /\ Uploaded(s) # None
        /\ session_state[HashKey(s)] = Some(get_file_hash(Uploaded(s)))
        /\ session_state[TimeKey(s)] # None
        /\ session_state[TimeKey(s)][1] < now

Pair(ss, s) == <<ss[HashKey(s)], ss[TimeKey(s)]>>

C10_StepFrame(s) ==
    Pair(session_state', s) # Pair(session_state, s)
    => /\ Resolving(s)
       /\ Uploaded(s) # None
       /\ session_state[HashKey(s)] # Some(get_file_hash(Uploaded(s)))
       /\ \A o \in Sources \ {s} : Pair(session_state', o) = Pair(session_state, o)

(***************************************************************************)
(* C10.  A source's stored (fingerprint, upload time) pair changes only in *)
(* the step that resolves that same source with an upload whose            *)
(* fingerprint differs from the stored one: a fallback resolution, and any *)
(* resolution of the other source, leave it unchanged.                     *)
(***************************************************************************)
C10_PairChangesOnlyOnNewUpload ==
    [][\A s \in Sources : C10_StepFrame(s)]_vars

\* upload, then a run on the fallback, then the same upload again: the time is
\* still the one of the first upload
C10_Witness ==
    \E s \in Sources :
        /\ origin[s] = "user-upload"
        /\ prev_origin[s] = "remote-fallback"
        /\ session_state[HashKey(s)] = Some(get_file_hash(Uploaded(s)))
        /\ session_state[TimeKey(s)] # None
        /\ session_state[TimeKey(s)][1] + 2 <= now

(***************************************************************************)
(* C2.  A run in which a source has no upload and its fallback URL answers *)
(* with a status other than 200 ends with the failure reported and has     *)
(* emitted no summary card, chart or table.  The claim is read in the      *)
(* code's favour: the page's own notice (line 388) counts as the report,   *)
(* and runs stopped by another exception are left out.                     *)
(***************************************************************************)
C2_FetchFailureHaltsRender ==
    (/\ pc \in {"done", "halted"}
     /\ failure \notin {"KeyError", "ValueError"}
     /\ \E s \in Sources : /\ Uploaded(s) = None
                           /\ response[s] # None
                           /\ response[s] # Some(200))
    => /\ failure = "SourceUnavailable" \/ "upload_info" \in Emitted
       /\ Emitted \cap DashboardOutputs = {}

(***************************************************************************)
(* C3.  A run whose contract table lacks a required column does not        *)
(* complete, ends with a failure, and emits no summary card, chart or      *)
(* table at any point.                                                     *)
(***************************************************************************)
C3_MissingColumnHaltsWithoutOutput ==
    missing # {}
    => /\ pc # "done"
       /\ pc = "halted" => failure \in {"KeyError", "ValueError"}
       /\ Emitted \cap DashboardOutputs = {}

(***************************************************************************)
(* C4.  A completed run whose contract source resolved to a table with all *)
(* required columns has emitted the top-5 KPI chart, the remaining         *)
(* contracts KPI chart and the time-elapsed bucket chart.                  *)
(***************************************************************************)
C4_KpiAndBucketsEmitted ==
    (pc = "done" /\ contract_file # "None" /\ missing = {})
    => {"kpi_top5", "kpi_others", "time_buckets"} \subseteq Emitted

(***************************************************************************)
(* C6.  A prepared contract record has a non-null REALIZED_PCT only when   *)
(* its contract value is greater than 0.                                   *)
(***************************************************************************)
C6_PctNullUnlessPositiveValue ==
    (rec.kind = "contract" /\ derived.stage \in {"prepared", "shaped"})
    => (notna(derived.row.REALIZED_PCT) => FLess(Num(0), rec.CONTRACT_VALUE))

(***************************************************************************)
(* C7.  A contract record with non-null start equal to its end has a null  *)
(* TIME_GONE, whatever today is.                                           *)
(***************************************************************************)
C7_ZeroLengthIntervalIsNull ==
    (/\ rec.kind = "contract"
     /\ derived.stage # "read"
     /\ rec.START # None
     /\ rec.START = rec.END)
    => isna(derived.TIME_GONE)

(***************************************************************************)
(* C8.  No record reaching the shaper, contract or vendor, has a negative  *)
(* remaining value.                                                        *)
(***************************************************************************)
C8_RemainingNeverNegative ==
    /\ (rec.kind = "contract" /\ derived.stage \in {"prepared", "shaped"})
       => ~FLess(derived.row.REMAINING, Num(0))
    /\ derived.stage = "shaped" => ~FLess(derived.pair.remaining_value, Num(0))

Descending(s) ==
    \A i \in 1..Len(s) : \A j \in i..Len(s) : FLeq(s[j].CONTRACT_VALUE, s[i].CONTRACT_VALUE)

(***************************************************************************)
(* C9.  top5 holds min(5, number of eligible rows) rows and others the     *)
(* rest; both are sorted descending by contract value; together they hold  *)
(* every eligible row of the table exactly once and no other row; no row   *)
(* of others has a larger contract value than a row of top5.               *)
(***************************************************************************)
C9_TopFiveAndOthersPartition ==
    (chart # None /\ df.kind = "contract")
    => LET all == chart.top5 \o chart.others
           eligible == {i \in 1..Len(df.rows) :
                          notna(df.rows[i].CONTRACT_VALUE) /\ notna(df.rows[i].REALIZATION)}
       IN  /\ Len(chart.top5) = Min(5, Cardinality(eligible))
           /\ Len(all) = Cardinality(eligible)
           /\ {all[i].idx + 1 : i \in 1..Len(all)} = eligible
           /\ \A i \in 1..Len(all) :
                all[i].CONTRACT_VALUE = df.rows[all[i].idx + 1].CONTRACT_VALUE
           /\ Descending(chart.top5)
           /\ Descending(chart.others)
           /\ \A i \in 1..Len(chart.top5) : \A j \in 1..Len(chart.others) :
                FLeq(chart.others[j].CONTRACT_VALUE, chart.top5[i].CONTRACT_VALUE)

\* more than five eligible rows, of different values, not in file order
C9_Witness ==
    /\ chart # None
    /\ df.kind = "contract"
    /\ Len(chart.top5) = 5
    /\ Len(chart.others) >= 1
    /\ chart.top5[1].idx # 0
    /\ chart.top5[1].CONTRACT_VALUE # chart.others[1].CONTRACT_VALUE

(***************************************************************************)
(* C5.  In every non-empty figure built by build_kpi_bar the first pair    *)
(* shows the legend for both series and no later pair does.                *)
(***************************************************************************)
C5_LegendOnFirstPairOnly ==
    chart # None
    => \A f \in 1..Len(chart.figs) :
         LET fig == chart.figs[f]
         IN  \A i \in 1..Len(fig) :
               /\ fig[i].realized.showlegend = (i = 1)
               /\ fig[i].remaining.showlegend = (i = 1)

====
